---------------------------- MODULE Spec2Model ----------------------------
(***************************************************************************)
(* HashMap<Key, Value, Hash> of src/HashMap.h: a separate-chaining hash    *)
(* table (std::vector of std::list buckets) with bucket-count doubling.    *)
(*                                                                         *)
(* Conventions.  Bucket indices are 0-based as in the code; bucket i of a  *)
(* table is mData[t][i + 1].  A position in a chain is 1-based, Len + 1 is *)
(* the chain's end() and 0 is the value-initialised StoredIterator().      *)
(***************************************************************************)
EXTENDS Integers, Sequences, FiniteSets, TLC

\* ------------------------------------------------------------------ bounds
NumKeys == 2
MaxInput == 2

\* Value() of the index operator (Value is an integer type in the model).
DefaultValue == 0

Keys == 1..NumKeys

\* The code copies values and never reads one: the default value and one other
\* value tell a stored value from a discarded one.
Values == {DefaultValue, DefaultValue + 1}
StoredType == [first : Keys, second : Values]

\* The Hash function objects a table can be constructed with.
HashFns == {"triple", "zero"}

\* mHash(key) of a hash function object h.
Hash(h, key) == IF h = "triple" THEN 3 * key ELSE 0

RECURSIVE SeqsUpTo(_, _)
SeqsUpTo(S, n) ==
    IF n = 0 THEN {<<>>}
    ELSE LET shorter == SeqsUpTo(S, n - 1)
         IN  shorter \cup {Append(s, x) : s \in {q \in shorter : Len(q) = n - 1}, x \in S}

\* The ranges [begin, end) a table is constructed from.
Inputs == SeqsUpTo(StoredType, MaxInput)

\* ------------------------------------------------------------------- state
VARIABLES
    mData,   \* mData[t]: the bucket vector of table object t (a sequence of chains)
    mHash,   \* mHash[t]: the hash function object of table t
    mSize,   \* mSize[t]: the size field of table t
    ret,     \* the call that returned last, with its arguments and its result
    fault    \* "none", or the signal that ended the program

vars == <<mData, mHash, mSize, ret, fault>>

Tables == DOMAIN mData

\* --------------------------------------------------------- private helpers
bucket_count(t) == Len(mData[t])

\* A load factor taken against twice the bucket count.
LoadFactorHalved(data, size) == size \div (2 * Len(data))

\* mSize / mData.size(): a division of two size_t, converted to double afterwards.
loadFactor(data, size) == size \div Len(data)

\* A pre-check against 1.
OverloadedAboveOne(data, size) == loadFactor(data, size) > 1

\* loadFactor() > 0.5, the growth pre-check of insert.
Overloaded(data, size) == 2 * loadFactor(data, size) > 1

IndexIn(data, h, key) == Hash(h, key) % Len(data)

\* An index taken from the key itself, not from mHash(key).
IndexOfKey(t, key) == key % Len(mData[t])

indexOf(t, key) == IndexIn(mData[t], mHash[t], key)

\* An erase that drops the rest of the chain with the entry.
RemoveFrom(s, p) == SubSeq(s, 1, p - 1)

\* chain.erase(it) of the entry at position p.
RemoveAt(s, p) == SubSeq(s, 1, p - 1) \o SubSeq(s, p + 1, Len(s))

\* The first position of chain whose key equals key, Len + 1 (end()) if none:
\* the scan loop of insert, erase, find and at.
RECURSIVE ScanFrom(_, _, _)
ScanFrom(chain, key, p) ==
    IF p > Len(chain) THEN p
    ELSE IF chain[p].first = key THEN p
    ELSE ScanFrom(chain, key, p + 1)

\* A scan that compares the first entry of the chain only.
ScanFirstOnly(chain, key) ==
    IF Len(chain) >= 1 /\ chain[1].first = key THEN 1 ELSE Len(chain) + 1

Scan(chain, key) == ScanFrom(chain, key, 1)

\* An inner loop that copies an entry to its new bucket and leaves it in the old.
RECURSIVE RehashChainCopying(_, _, _, _)
RehashChainCopying(data, h, i, p) ==
    IF p > Len(data[i + 1]) THEN data
    ELSE LET newIndex == IndexIn(data, h, data[i + 1][p].first)
         IN  IF newIndex # i
             THEN RehashChainCopying([data EXCEPT ![newIndex + 1] = Append(@, data[i + 1][p])],
                                     h, i, p + 1)
             ELSE RehashChainCopying(data, h, i, p + 1)

\* The inner loop of rehash over bucket i, from chain position p on.
RECURSIVE RehashChain(_, _, _, _)
RehashChain(data, h, i, p) ==
    IF p > Len(data[i + 1]) THEN data
    ELSE LET newIndex == IndexIn(data, h, data[i + 1][p].first)
         IN  IF newIndex # i
             THEN LET pushed == [data EXCEPT ![newIndex + 1] = Append(@, data[i + 1][p])]
                  IN  RehashChain([pushed EXCEPT ![i + 1] = RemoveAt(@, p)], h, i, p)
             ELSE RehashChain(data, h, i, p + 1)

\* The outer loop of rehash, from bucket i up to oldSize.
RECURSIVE RehashFrom(_, _, _, _)
RehashFrom(data, h, i, oldSize) ==
    IF i = oldSize THEN data
    ELSE RehashFrom(RehashChain(data, h, i, 1), h, i + 1, oldSize)

\* A rehash that resizes the vector and relocates nothing.
RehashInPlace(data, h) == data \o [j \in 1..Len(data) |-> <<>>]

rehash(data, h) ==
    LET oldSize == Len(data)
        resized == data \o [j \in 1..oldSize |-> <<>>]
    IN  RehashFrom(resized, h, 0, oldSize)

\* ---------------------------------------------------------------- iterator
\* A constructor that steps over one empty bucket and no further.
IteratorSkipOnce(data, bucket, stored) ==
    IF bucket >= Len(data) THEN [mBucket |-> bucket, mStored |-> stored]
    ELSE IF stored = Len(data[bucket + 1]) + 1
         THEN IF bucket + 1 = Len(data)
              THEN [mBucket |-> bucket + 1, mStored |-> 0]
              ELSE [mBucket |-> bucket + 1, mStored |-> 1]
         ELSE [mBucket |-> bucket, mStored |-> stored]

\* The loop of the iterator constructor.  At bucket = mBucketEnd the chain's
\* end() is the address of the list's own sentinel node, which never equals the
\* null StoredIterator(), so the loop is not entered there.
RECURSIVE iterator(_, _, _)
iterator(data, bucket, stored) ==
    IF bucket >= Len(data) THEN [mBucket |-> bucket, mStored |-> stored]
    ELSE IF stored = Len(data[bucket + 1]) + 1
         THEN IF bucket + 1 = Len(data)
              THEN [mBucket |-> bucket + 1, mStored |-> 0]
              ELSE iterator(data, bucket + 1, 1)
         ELSE [mBucket |-> bucket, mStored |-> stored]

\* The buckets whose chain the loop of the iterator constructor reads
\* (mBucket->end(), mBucket->begin()): the first test of the loop reads the
\* chain of the bucket it was given, before any comparison with mBucketEnd.
RECURSIVE IteratorReads(_, _, _)
IteratorReads(data, bucket, stored) ==
    IF bucket >= Len(data) THEN {bucket}
    ELSE IF stored = Len(data[bucket + 1]) + 1 /\ bucket + 1 # Len(data)
         THEN {bucket} \cup IteratorReads(data, bucket + 1, 1)
         ELSE {bucket}

end(data) == iterator(data, Len(data), 0)

\* iterator begin(): iterator(mData.begin(), mData.end(), mData.front().begin())
begin(data) == iterator(data, 0, 1)

\* iterator& operator++(): ++mStored, then the loop of the constructor.
Increment(data, it) == iterator(data, it.mBucket, it.mStored + 1)

NoIterator == [mBucket |-> -1, mStored |-> -1]

\* operator* of an iterator that is not the end iterator.
Deref(data, it) == data[it.mBucket + 1][it.mStored]

\* find(key) on the table (data, h).
FindIn(data, h, key) ==
    LET index == IndexIn(data, h, key)
        p == Scan(data[index + 1], key)
    IN  IF p <= Len(data[index + 1]) THEN iterator(data, index, p) ELSE end(data)

find(t, key) == FindIn(mData[t], mHash[t], key)

\* The buckets whose chain the iterator constructor reads in find(key).
FindReads(data, h, key) ==
    LET index == IndexIn(data, h, key)
        p == Scan(data[index + 1], key)
    IN  IF p <= Len(data[index + 1])
        THEN IteratorReads(data, index, p)
        ELSE IteratorReads(data, Len(data), 0)

\* ------------------------------------------------------------ constructors
\* The last call and what it returned (of a call that ended the program, its
\* name and arguments): op and t name the call and the
\* table, key and val its arguments (val is the value returned by at), flag is
\* the bool of insert's pair (the exception of at), it the iterator returned,
\* in the range a constructor was given (val is the number of operator++ calls
\* since begin(), -1 for an iterator that did not start at begin()), reads the
\* buckets whose chain the iterator constructors of the call read.
Returned(op, t, key, val, flag, it, in) ==
    [op |-> op, t |-> t, key |-> key, val |-> val, flag |-> flag, it |-> it, in |-> in,
     reads |-> {}, rhs |-> 0]

WithReads(r, reads) == [r EXCEPT !.reads = reads]

\* rhs of a call on two tables.  On a call that changes one table, rhs is the
\* table that the call before it, a swap, exchanged the table with (0 if the
\* call before it was not a swap).
WithRhs(r, u) == [r EXCEPT !.rhs = u]

AfterSwap(r) ==
    WithRhs(r, IF ret.op = "swap" THEN (IF r.t = ret.t THEN ret.rhs ELSE ret.t) ELSE 0)

\* A range constructor that appends every element to the first bucket.
FillFirstBucket(data, h, in, n) ==
    [data EXCEPT ![1] = @ \o SubSeq(in, n, Len(in))]

\* The loop of the range constructor, from element n of the input on.
RECURSIVE FillFrom(_, _, _, _)
FillFrom(data, h, in, n) ==
    IF n > Len(in) THEN data
    ELSE LET index == IndexIn(data, h, in[n].first)
         IN  FillFrom([data EXCEPT ![index + 1] = Append(@, in[n])], h, in, n + 1)

\* mData after HashMap(begin, end, hash).
RangeData(in, h) ==
    LET n == IF Len(in) * 2 # 0 THEN Len(in) * 2 ELSE 1
    IN  FillFrom([j \in 1..n |-> <<>>], h, in, 1)

\* explicit HashMap(Hash hash = Hash()): the state of table t after the call.
DefaultConstruct(t, h) ==
    /\ mData = [u \in {t} |-> << <<>> >>]
    /\ mHash = [u \in {t} |-> h]
    /\ mSize = [u \in {t} |-> 0]
    /\ ret = Returned("construct", t, 0, 0, FALSE, NoIterator, <<>>)

\* HashMap(Iter begin, Iter end, Hash hash) and HashMap(initializer_list, Hash):
\* the state of table t after the call.
RangeConstruct(t, in, h) ==
    /\ mData = [u \in {t} |-> RangeData(in, h)]
    /\ mHash = [u \in {t} |-> h]
    /\ mSize = [u \in {t} |-> Len(in)]
    /\ ret = Returned("construct_range", t, 0, 0, FALSE, NoIterator, in)

\* ------------------------------------------------------------- operations
\* A division or a modulo by mData.size() = 0: the program is ended by the
\* trap of the division (SIGFPE) or, where the division yields 0, by the access
\* to an element of the empty vector that follows it (SIGSEGV).
DivideByZero(op, t, key) ==
    /\ fault' \in {"SIGFPE", "SIGSEGV"}
    /\ ret' = Returned(op, t, key, 0, FALSE, NoIterator, <<>>)
    /\ UNCHANGED <<mData, mHash, mSize>>

\* An insert that assigns the new value to the entry it finds.
InsertOrAssign(data, h, size, key, val) ==
    LET grown == IF Overloaded(data, size) THEN rehash(data, h) ELSE data
        index == IndexIn(grown, h, key)
        p == Scan(grown[index + 1], key)
    IN  IF p <= Len(grown[index + 1])
        THEN [data |-> [grown EXCEPT ![index + 1][p].second = val], size |-> size,
              flag |-> FALSE, it |-> iterator(grown, index, p)]
        ELSE LET placed == [grown EXCEPT ![index + 1] =
                                Append(@, [first |-> key, second |-> val])]
             IN  [data |-> placed, size |-> size + 1, flag |-> TRUE,
                  it |-> iterator(placed, index, Len(placed[index + 1]))]

\* insert(const StoredType&) and insert(StoredType&&) on the table (data, h, size):
\* the table afterwards and the pair returned.
InsertResult(data, h, size, key, val) ==
    LET grown == IF Overloaded(data, size) THEN rehash(data, h) ELSE data
        index == IndexIn(grown, h, key)
        p == Scan(grown[index + 1], key)
    IN  IF p <= Len(grown[index + 1])
        THEN [data |-> grown, size |-> size, flag |-> FALSE, it |-> iterator(grown, index, p)]
        ELSE LET placed == [grown EXCEPT ![index + 1] =
                                Append(@, [first |-> key, second |-> val])]
             IN  [data |-> placed, size |-> size + 1, flag |-> TRUE,
                  it |-> iterator(placed, index, Len(placed[index + 1]))]

InsertAs(op, t, key, val) ==
    /\ fault = "none"
    /\ IF bucket_count(t) = 0
       THEN DivideByZero(op, t, key)
       ELSE LET r == InsertResult(mData[t], mHash[t], mSize[t], key, val)
            IN  /\ mData' = [mData EXCEPT ![t] = r.data]
                /\ mSize' = [mSize EXCEPT ![t] = r.size]
                /\ ret' = AfterSwap(WithReads(Returned(op, t, key, val, r.flag, r.it, <<>>),
                                              IteratorReads(r.data, r.it.mBucket,
                                                            r.it.mStored)))
                /\ UNCHANGED <<mHash, fault>>

insert(t, key, val) == InsertAs("insert", t, key, val)

\* Value& operator[](const Key&)
Index(t, key) == InsertAs("index", t, key, DefaultValue)

\* void erase(const Key&); the flag recorded tells whether an entry was erased.
erase(t, key) ==
    /\ fault = "none"
    /\ IF bucket_count(t) = 0
       THEN DivideByZero("erase", t, key)
       ELSE LET index == indexOf(t, key)
                p == Scan(mData[t][index + 1], key)
            IN  /\ IF p <= Len(mData[t][index + 1])
                   THEN /\ mData' = [mData EXCEPT ![t][index + 1] = RemoveAt(@, p)]
                        /\ mSize' = [mSize EXCEPT ![t] = @ - 1]
                   ELSE UNCHANGED <<mData, mSize>>
                /\ ret' = AfterSwap(Returned("erase", t, key, 0,
                                             p <= Len(mData[t][index + 1]),
                                             NoIterator, <<>>))
                /\ UNCHANGED <<mHash, fault>>

\* iterator find(const Key&)
Find(t, key) ==
    /\ fault = "none"
    /\ IF bucket_count(t) = 0
       THEN DivideByZero("find", t, key)
       ELSE /\ ret' = WithReads(Returned("find", t, key, 0, FALSE, find(t, key), <<>>),
                                FindReads(mData[t], mHash[t], key))
            /\ UNCHANGED <<mData, mHash, mSize, fault>>

\* const Value& at(const Key&) const
at(t, key) ==
    /\ fault = "none"
    /\ IF bucket_count(t) = 0
       THEN DivideByZero("at", t, key)
       ELSE LET index == indexOf(t, key)
                p == Scan(mData[t][index + 1], key)
            IN  /\ IF p <= Len(mData[t][index + 1])
                   THEN ret' = Returned("at", t, key, mData[t][index + 1][p].second, FALSE,
                                        NoIterator, <<>>)
                   ELSE ret' = Returned("at", t, key, 0, TRUE, NoIterator, <<>>)
                /\ UNCHANGED <<mData, mHash, mSize, fault>>

\* The caller assigns through what the last call returned (the iterator of
\* insert or find, the reference of the index operator): it->second = val.
Assign(val) ==
    /\ fault = "none"
    /\ ret.op \in {"insert", "index", "find"}
    /\ ret.it.mBucket < bucket_count(ret.t)
    /\ mData' = [mData EXCEPT ![ret.t][ret.it.mBucket + 1][ret.it.mStored].second = val]
    /\ ret' = Returned("assign", ret.t, ret.key, val, FALSE, ret.it, <<>>)
    /\ UNCHANGED <<mHash, mSize, fault>>

\* iterator begin().  On an empty vector mData.front() is the element at a
\* null pointer, whose chain begin() reads.
Begin(t) ==
    /\ fault = "none"
    /\ IF bucket_count(t) = 0
       THEN /\ fault' = "SIGSEGV"
            /\ ret' = WithReads(Returned("begin", t, 0, 0, FALSE, NoIterator, <<>>), {0})
       ELSE /\ ret' = WithReads(Returned("begin", t, 0, 0, FALSE, begin(mData[t]), <<>>),
                                IteratorReads(mData[t], 0, 1))
            /\ UNCHANGED fault
    /\ UNCHANGED <<mData, mHash, mSize>>

\* iterator end().  The constructor compares the null StoredIterator() with the
\* end() of the chain at mData.end(): the address of the sentinel node of a
\* list that is not there.  That address is not null behind the elements of a
\* vector; it is null, or not, at the null pointer of an empty vector, where a
\* null one sends the loop on to read the chain at the next address.
End(t) ==
    /\ fault = "none"
    /\ ret' = WithReads(Returned("end", t, 0, 0, FALSE, end(mData[t]), <<>>),
                        IteratorReads(mData[t], Len(mData[t]), 0))
    /\ IF bucket_count(t) = 0 THEN fault' \in {"none", "SIGSEGV"} ELSE UNCHANGED fault
    /\ UNCHANGED <<mData, mHash, mSize>>

\* ++it on the iterator the last call returned, which is not the end iterator.
Advance ==
    /\ fault = "none"
    /\ ret.op \in {"begin", "advance", "find", "insert", "index"}
    /\ ret.it.mBucket < bucket_count(ret.t)
    /\ LET data == mData[ret.t]
           steps == IF ret.op \in {"begin", "advance"} /\ ret.val >= 0
                    THEN ret.val + 1 ELSE -1
       IN  ret' = WithReads(Returned("advance", ret.t, 0, steps, FALSE,
                                     Increment(data, ret.it), <<>>),
                            IteratorReads(data, ret.it.mBucket, ret.it.mStored + 1))
    /\ UNCHANGED <<mData, mHash, mSize, fault>>

\* void clear(); the value recorded is the size the call reset.
clear(t) ==
    /\ fault = "none"
    /\ mData' = [mData EXCEPT ![t] = [j \in 1..Len(@) |-> <<>>]]
    /\ mSize' = [mSize EXCEPT ![t] = 0]
    /\ ret' = AfterSwap(Returned("clear", t, 0, mSize[t], FALSE, NoIterator, <<>>))
    /\ UNCHANGED <<mHash, fault>>

\* HashMap(HashMap&& rhs) with rhs = table t: what the call leaves in rhs.  The
\* moved-from vector is empty, mSize is read and left as it was.
MovedFrom(t) ==
    /\ fault = "none"
    /\ mData' = [mData EXCEPT ![t] = <<>>]
    /\ ret' = Returned("move", t, 0, 0, FALSE, NoIterator, <<>>)
    /\ UNCHANGED <<mHash, mSize, fault>>

\* A swap that leaves the hash function objects where they are.
SwapWithoutHash(t, u) ==
    /\ fault = "none"
    /\ t # u
    /\ mData' = [mData EXCEPT ![t] = mData[u], ![u] = mData[t]]
    /\ mSize' = [mSize EXCEPT ![t] = mSize[u], ![u] = mSize[t]]
    /\ ret' = WithRhs(Returned("swap", t, 0, 0, FALSE, NoIterator, <<>>), u)
    /\ UNCHANGED <<mHash, fault>>

\* void swap(HashMap& rhs) on table t with rhs = table u
swap(t, u) ==
    /\ fault = "none"
    /\ t # u
    /\ mHash' = [mHash EXCEPT ![t] = mHash[u], ![u] = mHash[t]]
    /\ mData' = [mData EXCEPT ![t] = mData[u], ![u] = mData[t]]
    /\ mSize' = [mSize EXCEPT ![t] = mSize[u], ![u] = mSize[t]]
    /\ ret' = WithRhs(Returned("swap", t, 0, 0, FALSE, NoIterator, <<>>), u)
    /\ UNCHANGED fault

\* HashMap& operator=(HashMap rhs) on table t with an lvalue argument, table u:
\* rhs is the copy HashMap(const HashMap&) makes of u, swap(rhs) gives t the
\* state of the copy, and the copy goes with the former state of t.
CopyAssign(t, u) ==
    /\ fault = "none"
    /\ t # u
    /\ mHash' = [mHash EXCEPT ![t] = mHash[u]]
    /\ mData' = [mData EXCEPT ![t] = mData[u]]
    /\ mSize' = [mSize EXCEPT ![t] = mSize[u]]
    /\ ret' = WithRhs(Returned("copy", t, 0, 0, FALSE, NoIterator, <<>>), u)
    /\ UNCHANGED fault

\* ---------------------------------------------------------- specifications
\* One table, constructed by any of the constructors.
Init ==
    /\ \/ \E h \in HashFns : DefaultConstruct(1, h)
       \/ \E in \in Inputs, h \in HashFns : RangeConstruct(1, in, h)
    /\ fault = "none"

Next ==
    \/ \E t \in Tables, key \in Keys, val \in Values : insert(t, key, val)
    \/ \E t \in Tables, key \in Keys : Index(t, key)
    \/ \E t \in Tables, key \in Keys : erase(t, key)
    \/ \E t \in Tables, key \in Keys : Find(t, key)
    \/ \E t \in Tables, key \in Keys : at(t, key)
    \/ \E val \in Values : Assign(val)
    \/ \E t \in Tables : clear(t)
    \/ \E t \in Tables : MovedFrom(t)
    \/ \E t \in Tables : Begin(t)
    \/ \E t \in Tables : End(t)
    \/ Advance

Spec == Init /\ [][Next]_vars

\* One default-constructed table and its insert and erase calls.
InitDefault ==
    /\ \E h \in HashFns : DefaultConstruct(1, h)
    /\ fault = "none"

NextInsertErase ==
    \/ \E t \in Tables, key \in Keys, val \in Values : insert(t, key, val)
    \/ \E t \in Tables, key \in Keys : erase(t, key)

SpecInsertErase == InitDefault /\ [][NextInsertErase]_vars

\* Two tables that are never moved from, and the calls that change them: table
\* 1 constructed by any of the constructors, table 2 default-constructed with
\* another hash function object.  The values play no part between two tables:
\* every entry gets the default one.
DefaultInputs == SeqsUpTo([first : Keys, second : {DefaultValue}], MaxInput)

InitTwoTables ==
    /\ \E in \in DefaultInputs, h1 \in HashFns, h2 \in HashFns :
           /\ h1 # h2
           /\ mData = [t \in {1, 2} |-> IF t = 1 THEN RangeData(in, h1) ELSE << <<>> >>]
           /\ mHash = [t \in {1, 2} |-> IF t = 1 THEN h1 ELSE h2]
           /\ mSize = [t \in {1, 2} |-> IF t = 1 THEN Len(in) ELSE 0]
    /\ ret = Returned("construct", 2, 0, 0, FALSE, NoIterator, <<>>)
    /\ fault = "none"

\* The entries of the two tables together stay within the length of an input.
TotalSize == mSize[1] + mSize[2]

NextTwoTables ==
    \/ \E t \in Tables, key \in Keys :
           TotalSize < MaxInput /\ insert(t, key, DefaultValue)
    \/ \E t \in Tables, key \in Keys : TotalSize < MaxInput /\ Index(t, key)
    \/ \E t \in Tables, key \in Keys : erase(t, key)
    \/ \E t \in Tables : clear(t)
    \/ \E t, u \in Tables : swap(t, u)
    \/ \E t, u \in Tables : 2 * mSize[u] <= MaxInput /\ CopyAssign(t, u)

SpecTwoTables == InitTwoTables /\ [][NextTwoTables]_vars

\* ------------------------------------------------------------ observations
\* The places <<bucket, position>> of the entries of a bucket vector.
Positions(data) ==
    UNION {{<<b, p>> : p \in 1..Len(data[b])} : b \in 1..Len(data)}

EntryAt(data, x) == data[x[1]][x[2]]

StoredKeys(data) == {EntryAt(data, x).first : x \in Positions(data)}

\* How many entries equal to e the bucket vector holds.
Count(data, e) == Cardinality({x \in Positions(data) : EntryAt(data, x) = e})

\* The same multiset of (key, value) pairs.
SameContent(d1, d2) == \A e \in StoredType : Count(d1, e) = Count(d2, e)

\* The step is a call of op that returned.
Called(op) == fault' = "none" /\ ret'.op = op

\* --------------------------------------------------------------------- C1
SizeIsKeyCount ==
    \A t \in Tables : mSize[t] = Cardinality(StoredKeys(mData[t]))

C1_Step ==
    \A t \in Tables :
        LET before == StoredKeys(mData[t])
            after == StoredKeys(mData'[t])
        IN  /\ (Called("insert") /\ ret'.t = t) =>
                  /\ after = before \cup {ret'.key}
                  /\ ret'.key \in before => mSize'[t] = mSize[t]
            /\ (Called("erase") /\ ret'.t = t) =>
                  /\ after = before \ {ret'.key}
                  /\ ret'.key \notin before => mSize'[t] = mSize[t]

\* C1: from a default-constructed table, after any sequence of insert and erase
\* calls size() is the number of distinct keys stored; a key is stored exactly
\* from the insert of it to the next erase of it; an insert of a stored key and
\* an erase of an absent key leave size() as it was.
C1_SizeCountsDistinctKeys == [](SizeIsKeyCount) /\ [][C1_Step]_vars

\* A duplicate insert has returned on a table of two keys.
C1_Witness ==
    /\ ret.op = "insert"
    /\ ~ret.flag
    /\ mSize[ret.t] = 2
    /\ Cardinality(StoredKeys(mData[ret.t])) = 2

\* --------------------------------------------------------------------- C2
\* The entries of key, in bucket order and chain order.
EntriesOf(data, key) == {x \in Positions(data) : EntryAt(data, x).first = key}

C2_Step ==
    \A t \in Tables :
        (Called("insert") /\ ret'.t = t) =>
            LET key == ret'.key
                it == ret'.it
            IN  IF key \in StoredKeys(mData[t])
                THEN /\ ~ret'.flag
                     /\ it.mBucket < Len(mData'[t])
                     /\ Deref(mData'[t], it).first = key
                     /\ \E x \in EntriesOf(mData[t], key) :
                            EntryAt(mData[t], x) = Deref(mData'[t], it)
                     /\ SameContent(mData'[t], mData[t])
                     /\ mSize'[t] = mSize[t]
                ELSE /\ ret'.flag
                     /\ it.mBucket < Len(mData'[t])
                     /\ Deref(mData'[t], it) = [first |-> key, second |-> ret'.val]
                     /\ it.mStored = Len(mData'[t][it.mBucket + 1])
                     /\ \A e \in StoredType :
                            Count(mData'[t], e) = Count(mData[t], e)
                                + (IF e = [first |-> key, second |-> ret'.val] THEN 1 ELSE 0)
                     /\ mSize'[t] = mSize[t] + 1

\* C2: insert(k, v) on a table that holds k returns false and an iterator to
\* an existing entry of k, changes no stored pair and leaves size(); on a table
\* that does not hold k it appends (k, v) to a chain, adds one to size() and
\* returns true with an iterator to the new entry.
C2_InsertKeepsFirst == [][C2_Step]_vars

\* A duplicate insert with another value has returned the existing entry.
C2_Witness ==
    /\ ret.op = "insert"
    /\ ~ret.flag
    /\ ret.it.mBucket < bucket_count(ret.t)
    /\ Deref(mData[ret.t], ret.it).first = ret.key
    /\ Deref(mData[ret.t], ret.it).second # ret.val

\* --------------------------------------------------------------------- C3
\* find(key) of table t returns an iterator to (key, val).
Finds(data, h, key, val) ==
    LET it == FindIn(data, h, key)
    IN  /\ it.mBucket < Len(data)
        /\ Deref(data, it) = [first |-> key, second |-> val]

C3_Step ==
    \A t \in Tables, key \in Keys, val \in Values :
        /\ (Called("insert") /\ ret'.t = t /\ ret'.key = key /\ ret'.val = val /\ ret'.flag)
              => Finds(mData'[t], mHash'[t], key, val)
        /\ ( /\ bucket_count(t) > 0
             /\ Finds(mData[t], mHash[t], key, val)
             /\ \/ Called("insert")
                \/ Called("index")
                \/ Called("erase") /\ ret'.key # key
                \/ Called("find")
                \/ Called("at") )
              => Finds(mData'[t], mHash'[t], key, val)

\* C3: once insert(k, v) has returned true, find(k) returns an iterator to
\* (k, v), and find(k) goes on returning (k, v) over every later insert of any
\* key, every erase of another key and every doubling, until k is erased or its
\* value assigned.
C3_FindReturnsFirstInserted == [][C3_Step]_vars

\* On a table of four buckets a duplicate insert with another value was
\* discarded and find returns the value stored first.
C3_Witness ==
    /\ ret.op = "insert"
    /\ ~ret.flag
    /\ bucket_count(ret.t) = 4
    /\ mSize[ret.t] = 2
    /\ \E val \in Values \ {ret.val} : Finds(mData[ret.t], mHash[ret.t], ret.key, val)

\* --------------------------------------------------------------------- C4
\* C4 as claimed: after any insert call returns, size() / bucket_count() is
\* at most 0.5.
C4_LoadFactorAtMostHalf ==
    (fault = "none" /\ ret.op \in {"insert", "index"})
        => 2 * mSize[ret.t] <= bucket_count(ret.t)

\* C4: after any insert call returns, size() / bucket_count() is at most 1.
C4_LoadFactorAtMostOne ==
    (fault = "none" /\ ret.op \in {"insert", "index"})
        => mSize[ret.t] <= bucket_count(ret.t)

\* An insert has placed an entry and left the load factor at 1.
C4_Witness ==
    /\ ret.op = "insert"
    /\ ret.flag
    /\ bucket_count(ret.t) = 2
    /\ mSize[ret.t] = 2

\* --------------------------------------------------------------------- C5
\* C5: once erase(k) has returned, find(k) returns the end iterator.
C5_EraseThenFindIsEnd ==
    (fault = "none" /\ ret.op = "erase")
        => find(ret.t, ret.key) = end(mData[ret.t])

\* --------------------------------------------------------------------- C6
C6_Step ==
    \A t \in Tables :
        ( /\ Called("erase")
          /\ ret'.t = t
          /\ \/ ret'.key \notin StoredKeys(mData[t])
             \/ ret.op = "erase" /\ ret.t = t /\ ret.key = ret'.key )
            => (mData'[t] = mData[t] /\ mSize'[t] = mSize[t] /\ mHash'[t] = mHash[t])

\* C6: an erase(k) that returns right after an erase(k), and an erase of a key
\* that is not stored, leave the table as it was (size, bucket count, chains).
C6_EraseIdempotent == [][C6_Step]_vars

\* --------------------------------------------------------------------- C7
C7_Step ==
    \A t \in Tables :
        /\ (Called("at") /\ ret'.t = t) =>
              /\ ret'.flag <=> ret'.key \notin StoredKeys(mData[t])
              /\ ~ret'.flag =>
                    \E x \in EntriesOf(mData[t], ret'.key) :
                        /\ EntryAt(mData[t], x).second = ret'.val
                        /\ \A y \in EntriesOf(mData[t], ret'.key) :
                               y[1] > x[1] \/ (y[1] = x[1] /\ y[2] >= x[2])
              /\ mData'[t] = mData[t] /\ mSize'[t] = mSize[t] /\ mHash'[t] = mHash[t]
        /\ (Called("index") /\ ret'.t = t /\ ret'.key \notin StoredKeys(mData[t])) =>
              /\ mSize'[t] = mSize[t] + 1
              /\ Count(mData'[t], [first |-> ret'.key, second |-> DefaultValue]) = 1

\* C7: a call of at(k) that ends throws out_of_range exactly when k is not
\* stored and otherwise returns the value of the (first) entry of k; either way
\* the table is as before, where the index operator adds an entry for an absent
\* key.
C7_AtThrowsIffAbsent == [][C7_Step]_vars

\* at has thrown on a table that holds another key.
C7_Witness ==
    /\ ret.op = "at"
    /\ ret.flag
    /\ fault = "none"
    /\ mSize[ret.t] = 1
    /\ StoredKeys(mData[ret.t]) # {}

\* --------------------------------------------------------------------- C8
\* A default-constructed table after insert of in[n], in[n + 1], ...
RECURSIVE InsertFrom(_, _, _, _)
InsertFrom(tbl, h, in, n) ==
    IF n > Len(in) THEN tbl
    ELSE InsertFrom(InsertResult(tbl.data, h, tbl.size, in[n].first, in[n].second), h, in, n + 1)

InsertAll(in, h) == InsertFrom([data |-> << <<>> >>, size |-> 0], h, in, 1)

\* C8: a table constructed from a range has the size, the keys and the pairs of
\* a default-constructed table after insert of each element in order: of a key
\* that occurs several times only the first occurrence is stored and counted.
C8_RangeEqualsInserts ==
    ret.op = "construct_range" =>
        LET ref == InsertAll(ret.in, mHash[ret.t])
        IN  /\ mSize[ret.t] = ref.size
            /\ StoredKeys(mData[ret.t]) = StoredKeys(ref.data)
            /\ SameContent(mData[ret.t], ref.data)

\* --------------------------------------------------------------------- C9
\* C9: no two entries of a table have equal keys.
C9_KeysUnique ==
    \A t \in Tables :
        \A x, y \in Positions(mData[t]) :
            x # y => EntryAt(mData[t], x).first # EntryAt(mData[t], y).first

\* -------------------------------------------------------------------- C10
\* The number of entries of a bucket vector.
NumEntries(data) == Cardinality(Positions(data))

C10_Rehash ==
    \A t \in Tables :
        (bucket_count(t) > 0 /\ Overloaded(mData[t], mSize[t])) =>
            LET r == rehash(mData[t], mHash[t])
            IN  /\ Len(r) = 2 * bucket_count(t)
                /\ SameContent(r, mData[t])
                /\ NumEntries(r) = NumEntries(mData[t])

C10_Step ==
    \A t \in Tables :
        ( /\ Called("insert") \/ Called("index")
          /\ ret'.t = t
          /\ bucket_count(t) > 0
          /\ Len(mData'[t]) = 2 * bucket_count(t) )
            => LET new == [first |-> ret'.key, second |-> ret'.val]
               IN  /\ \A e \in StoredType :
                          Count(mData'[t], e) = Count(mData[t], e)
                              + (IF ret'.flag /\ e = new THEN 1 ELSE 0)
                   /\ mSize'[t] = mSize[t] + (IF ret'.flag THEN 1 ELSE 0)

\* C10: a doubling keeps the multiset of (key, value) pairs of the table: the
\* rehash of a table that insert is about to grow holds the pairs the table
\* holds, and an insert that doubles the bucket count changes the pairs and
\* size() by the entry it places and by nothing else.
C10_RehashPreservesContent == [](C10_Rehash) /\ [][C10_Step]_vars

\* A duplicate insert on a table of two entries and four buckets has returned
\* the entry of the upper half of the buckets, where a doubling from two
\* buckets puts it.
C10_Witness ==
    /\ ret.op = "insert"
    /\ ~ret.flag
    /\ bucket_count(ret.t) = 4
    /\ mSize[ret.t] = 2
    /\ ret.it.mBucket = 2

\* -------------------------------------------------------------------- C11
\* The places of the entries as iterators, in bucket order and chain order.
RECURSIVE IterationOrderFrom(_, _)
IterationOrderFrom(data, b) ==
    IF b > Len(data) THEN <<>>
    ELSE [p \in 1..Len(data[b]) |-> [mBucket |-> b - 1, mStored |-> p]]
             \o IterationOrderFrom(data, b + 1)

IterationOrder(data) == IterationOrderFrom(data, 1)

\* C11: the iterator that begin() returned and n calls of operator++ advanced
\* is at the entry number n + 1 in bucket order and chain order, and it equals
\* end() exactly when n is the number of stored entries (begin() == end() on a
\* table without entries).
C11_IterationVisitsAllInOrder ==
    (fault = "none" /\ ret.op \in {"begin", "advance"} /\ ret.val >= 0) =>
        LET data == mData[ret.t]
            order == IterationOrder(data)
        IN  /\ ret.val <= Len(order)
            /\ IF ret.val = Len(order)
               THEN ret.it = end(data)
               ELSE ret.it = order[ret.val + 1] /\ ret.it # end(data)

\* In a table of four buckets whose one entry is in bucket 3, one advance from
\* begin() has reached end().
C11_Witness ==
    /\ ret.op = "advance"
    /\ ret.val = 1
    /\ bucket_count(ret.t) = 4
    /\ NumEntries(mData[ret.t]) = 1
    /\ Len(mData[ret.t][4]) = 1
    /\ ret.it = end(mData[ret.t])

\* -------------------------------------------------------------------- C12
C12_Step ==
    ret.op = "move" =>
        /\ mSize[ret.t] = NumEntries(mData[ret.t])
        /\ bucket_count(ret.t) >= 1
        /\ (ret'.op = "insert" /\ ret'.t = ret.t) =>
               /\ fault' = "none"
               /\ Finds(mData'[ret.t], mHash'[ret.t], ret'.key, ret'.val)

\* C12: the table a move construction (or move assignment) took its state from
\* is a usable table: its size is the number of entries it holds, its
\* bucket_count is at least 1, and an insert(k, v) on it completes and makes
\* find(k) return (k, v).
C12_MovedFromIsUsable == [][C12_Step]_vars

\* -------------------------------------------------------------------- C13
\* The entries of a chain whose key is not key, in the order of the chain.
OtherEntries(chain, key) ==
    LET Other(e) == e.first # key
    IN  SelectSeq(chain, Other)

C13_Step ==
    \A t \in Tables :
        (Called("erase") /\ ret'.t = t) =>
            LET key == ret'.key
            IN  /\ Len(mData'[t]) = Len(mData[t])
                /\ mHash'[t] = mHash[t]
                /\ \A b \in 1..Len(mData[t]) :
                       /\ OtherEntries(mData'[t][b], key) = OtherEntries(mData[t][b], key)
                       /\ Len(mData'[t][b]) \in {Len(mData[t][b]), Len(mData[t][b]) - 1}
                /\ NumEntries(mData'[t]) >= NumEntries(mData[t]) - 1

\* C13: erase(k) leaves bucket_count, and leaves every entry of another key in
\* its bucket, at its place among the other entries of the chain and with its
\* value; at most one entry, of key k, leaves the table.
C13_EraseTouchesOnlyErased == [][C13_Step]_vars

\* An erase has removed an entry from a chain that holds an entry of another key.
C13_Witness ==
    /\ fault = "none"
    /\ ret.op = "erase"
    /\ ret.flag
    /\ mData[ret.t][indexOf(ret.t, ret.key) + 1] # <<>>
    /\ ret.key \notin StoredKeys(mData[ret.t])

\* -------------------------------------------------------------------- C14
C14_Step ==
    \A t \in Tables :
        (Called("clear") /\ ret'.t = t) =>
            /\ mSize'[t] = 0
            /\ Len(mData'[t]) = Len(mData[t])
            /\ \A b \in 1..Len(mData'[t]) : mData'[t][b] = <<>>
            \* find(k) returns: its remainder by bucket_count has a divisor
            /\ Len(mData'[t]) > 0
            /\ \A key \in Keys :
                   FindIn(mData'[t], mHash'[t], key) = end(mData'[t])

\* C14: after clear() on any table the size is 0, every bucket is empty,
\* bucket_count is what it was before the call, and find(k) returns end() for
\* every key k.
C14_ClearEmptiesAndKeepsBuckets == [][C14_Step]_vars

\* -------------------------------------------------------------------- C15
C15_Step ==
    \A t \in Tables :
        \A u \in Tables \ {t} :
            /\ (Called("swap") /\ ret'.t = t /\ ret'.rhs = u) =>
                   /\ mData'[t] = mData[u] /\ mData'[u] = mData[t]
                   /\ mSize'[t] = mSize[u] /\ mSize'[u] = mSize[t]
                   /\ mHash'[t] = mHash[u] /\ mHash'[u] = mHash[t]
            /\ (ret'.op \in {"insert", "index", "erase", "clear"} /\ ret'.t = t) =>
                   /\ mData'[u] = mData[u]
                   /\ mSize'[u] = mSize[u]
                   /\ mHash'[u] = mHash[u]

\* C15: swap(t1, t2) gives each table the buckets with their entries, the size
\* and the hash function of the other, and every insert, erase, clear or
\* index-operator call on one table, after a swap as at any other time, leaves
\* the entries, the size and the bucket_count of the other table.
C15_SwapExchangesStates == [][C15_Step]_vars

\* An insert has placed a new entry in a table right after a swap had given it
\* the state of the other table, which held entries in more buckets and under
\* another hash function.
C15_Witness ==
    /\ fault = "none"
    /\ ret.op = "insert"
    /\ ret.flag
    /\ ret.rhs # 0
    /\ mHash[ret.t] # mHash[ret.rhs]
    /\ bucket_count(ret.t) # bucket_count(ret.rhs)
    /\ mSize[ret.rhs] >= 1

\* -------------------------------------------------------------------- C16
C16_Step ==
    \A t \in Tables :
        (Called("insert") /\ ret'.t = t) =>
            Len(mData'[t]) = IF 2 * mSize[t] > bucket_count(t)
                             THEN 2 * bucket_count(t)
                             ELSE bucket_count(t)

\* C16: an insert doubles bucket_count exactly when the size before the call is
\* more than half of bucket_count (size / bucket_count as a real number
\* exceeds 0.5), and leaves bucket_count otherwise.
C16_GrowsAboveHalf == [][C16_Step]_vars

\* -------------------------------------------------------------------- C17
\* C17: in every state every entry of every table is in the bucket whose index
\* is the hash of its key modulo the table's bucket_count.
C17_EntriesInHashBucket ==
    \A t \in Tables :
        \A x \in Positions(mData[t]) :
            x[1] - 1 = Hash(mHash[t], EntryAt(mData[t], x).first) % Len(mData[t])

\* A swap has given a table the entries and the hash function of the other:
\* two entries in two buckets of a grown bucket vector, placed under a hash
\* function that is not the one of the other table.
C17_Witness ==
    /\ ret.op = "swap"
    /\ mHash[ret.t] # mHash[ret.rhs]
    /\ mHash[ret.t] = "triple"
    /\ bucket_count(ret.t) >= 2
    /\ \E b1, b2 \in 1..bucket_count(ret.t) :
           b1 # b2 /\ mData[ret.t][b1] # <<>> /\ mData[ret.t][b2] # <<>>

\* -------------------------------------------------------------------- C18
\* C18: every table has at least one bucket in every state, a table that a move
\* took its state from included.
C18_BucketCountAtLeastOne == \A t \in Tables : bucket_count(t) >= 1

\* -------------------------------------------------------------------- C19
\* C19: the iterator constructors of begin(), end(), find, insert and operator++
\* read no chain at a bucket index at or beyond bucket_count, and an iterator
\* whose bucket cursor is at the table's end has the null in-chain cursor.
C19_NoChainReadAtTableEnd ==
    ret.op \in {"begin", "end", "find", "insert", "advance"} =>
        /\ \A b \in ret.reads : b < bucket_count(ret.t)
        /\ (fault = "none" /\ ret.it.mBucket >= bucket_count(ret.t)) =>
               ret.it = end(mData[ret.t])

\* -------------------------------------------------------------------- C20
\* C20: a table that was never moved from holds at most bucket_count entries in
\* every state, so that where the pre-check of an insert calls for growth, one
\* doubling leaves the size at no more than half of the new bucket_count.
C20_SizeAtMostBucketCount ==
    \A t \in Tables :
        /\ mSize[t] <= bucket_count(t)
        /\ Overloaded(mData[t], mSize[t]) =>
               2 * mSize[t] <= Len(rehash(mData[t], mHash[t]))

\* An insert has filled a table of two buckets: the pre-check of the next insert
\* calls for growth.
C20_Witness ==
    /\ ret.op = "insert"
    /\ ret.flag
    /\ bucket_count(ret.t) = 2
    /\ mSize[ret.t] = 2
    /\ Overloaded(mData[ret.t], mSize[ret.t])

=============================================================================
